---- MODULE Spec2Model ----
(***************************************************************************)
(* Request-coordination layer of the DICT simulator (Go implementation):   *)
(* the Redis token bucket (internal/ratelimit), the Mongo idempotency      *)
(* repository (internal/models/idempotency.go) and the Idempotency         *)
(* middleware (internal/middleware/idempotency.go).                        *)
(*                                                                         *)
(* Time is counted in whole seconds, as time.Now().Unix() does.  `clock`   *)
(* is the wall clock of the Redis server (it drives key expiry); an        *)
(* application instance reads its own clock, which may be skewed.          *)
(***************************************************************************)
EXTENDS Integers, Sequences, FiniteSets, TLC

VARIABLES
    clock,       \* wall clock of the Redis server, seconds
    store,       \* Redis: per bucket, the two keys and their expiry instants
    resetPend,   \* per bucket: a Reset whose pipeline has run its first SET only
    chk,         \* per bucket: what the latest Check returned, while the bucket
                 \* has not been touched since (history)
    hist,        \* per bucket: history the bucket claims are stated over
    costIn,      \* CostForStatus: the last (policy, status) it was applied to
    costOut,     \* CostForStatus: what it returned
    pol,         \* GetPolicy / DefaultPolicies: the last call and what the
                 \* caller holds of its result
    wr,          \* one handler invocation behind both middlewares: the calls
                 \* it made on its ResponseWriter and the two wrappers' fields
    idem,        \* Mongo collection "idempotency": key -> document (or NoDoc)
    req,         \* per request: where it stands in Manager.Idempotency
    lastSave,    \* per key: what the latest completed Save wrote (history)
    born,        \* per key: the call that created the present document (history)
    rl,          \* per request: where it stands in Manager.RateLimiterWithPolicy
    kv           \* Redis addressed by key string: the keys of several buckets,
                 \* each bucket's half-run Reset, the bucket last operated on

bucketVars == <<clock, store, resetPend, chk, hist>>
costVars == <<costIn, costOut, pol, wr, kv>>
idemVars == <<idem, req, lastSave, born>>
pipeVars == <<rl>>
vars == <<clock, store, resetPend, chk, hist, costIn, costOut, pol, wr, idem, req, lastSave, born, rl, kv>>

(***************************************************************************)
(* Bounds of the model                                                     *)
(***************************************************************************)
TickLen == 15        \* seconds the clock advances in one step
MaxTicks == 8        \* the clock stops after MaxTicks steps
SmallBucket == 5     \* BucketSize of the small policy
Skewed == {0 - TickLen, 0, TickLen}   \* instance clock minus Redis clock
Unskewed == {0}
Statuses == {0, 199, 200, 201, 299, 300, 400, 404, 499, 500, 503, 600}
ConsumeStatuses == {200, 404, 500}
CostValues == 0..3
NReq == 3            \* requests in flight
NPipe == 2           \* requests in flight on POST /entries
KeyOps == 5          \* steps taken while several buckets share one Redis

Nil == -1            \* an absent Redis key / a nil result
Min(a, b) == IF a < b THEN a ELSE b
Max(a, b) == IF a > b THEN a ELSE b

(***************************************************************************)
(* internal/ratelimit/policy.go                                            *)
(***************************************************************************)
PolicyEntriesWrite == "ENTRIES_WRITE"
PolicyEntriesUpdate == "ENTRIES_UPDATE"
PolicyEntriesReadParticipant == "ENTRIES_READ_PARTICIPANT_ANTISCAN"

DefaultPolicies ==
    [n \in {PolicyEntriesWrite, PolicyEntriesUpdate, PolicyEntriesReadParticipant} |->
        CASE n = PolicyEntriesWrite ->
                [Name |-> n, RefillRate |-> 1200, BucketSize |-> 36000,
                 SuccessCost |-> 1, NotFoundCost |-> 1, DefaultCost |-> 1,
                 IgnoreOn5xx |-> TRUE]
          [] n = PolicyEntriesUpdate ->
                [Name |-> n, RefillRate |-> 600, BucketSize |-> 600,
                 SuccessCost |-> 1, NotFoundCost |-> 1, DefaultCost |-> 1,
                 IgnoreOn5xx |-> TRUE]
          [] OTHER ->
                [Name |-> n, RefillRate |-> 2, BucketSize |-> 50,
                 SuccessCost |-> 1, NotFoundCost |-> 3, DefaultCost |-> 1,
                 IgnoreOn5xx |-> TRUE]]

\* The nil *Policy that GetPolicy returns for a name it does not know.
NilPolicy ==
    [Name |-> "", RefillRate |-> 0, BucketSize |-> 0, SuccessCost |-> 0,
     NotFoundCost |-> 0, DefaultCost |-> 0, IgnoreOn5xx |-> FALSE]

\* GetPolicy falling back to the write policy for a name it does not know.
GetPolicyFallback(name) ==
    IF name \in DOMAIN DefaultPolicies
    THEN DefaultPolicies[name] ELSE DefaultPolicies[PolicyEntriesWrite]

\* GetPolicy: the entry of a fresh DefaultPolicies() map, or nil.
GetPolicy(name) ==
    IF name \in DOMAIN DefaultPolicies THEN DefaultPolicies[name] ELSE NilPolicy

\* Names GetPolicy is asked for: the three registered, and three that are not.
PolicyNames ==
    {PolicyEntriesWrite, PolicyEntriesUpdate, PolicyEntriesReadParticipant,
     "", "entries_write", "NON_EXISTENT"}

NoCall == [called |-> FALSE, name |-> "", got |-> NilPolicy, all |-> <<>>,
           scribbled |-> FALSE]

\* The antiscan cost schedule of the registry (and of TestPolicyCostForStatus)
\* on a bucket small enough to enumerate: Check, Consume and Reset take the
\* Policy by value, so any policy is an input of theirs.
SmallPolicy ==
    [Name |-> "SMALL", RefillRate |-> 2, BucketSize |-> SmallBucket,
     SuccessCost |-> 1, NotFoundCost |-> 3, DefaultCost |-> 1, IgnoreOn5xx |-> TRUE]

\* The 5xx test of CostForStatus made after the switch, and with > for >=.
CostForStatusSwitchFirst(p, statusCode) ==
    IF statusCode >= 200 /\ statusCode < 300 THEN p.SuccessCost
    ELSE IF statusCode = 404 THEN p.NotFoundCost
    ELSE IF statusCode > 500 /\ p.IgnoreOn5xx THEN 0
    ELSE p.DefaultCost

CostForStatus(p, statusCode) ==
    IF statusCode >= 500 /\ p.IgnoreOn5xx THEN 0
    ELSE IF statusCode >= 200 /\ statusCode < 300 THEN p.SuccessCost
    ELSE IF statusCode = 404 THEN p.NotFoundCost
    ELSE p.DefaultCost

\* Policies CostForStatus is applied to: the registry's and the test table's
\* shapes (every combination of small costs, 5xx exempt or not).
CostPolicies ==
    {DefaultPolicies[n] : n \in DOMAIN DefaultPolicies} \cup
    [Name : {"T"}, RefillRate : {0}, BucketSize : {0}, SuccessCost : CostValues,
     NotFoundCost : CostValues, DefaultCost : CostValues, IgnoreOn5xx : BOOLEAN]

(***************************************************************************)
(* internal/ratelimit/bucket.go                                            *)
(***************************************************************************)
\* A bucket is a (policy name, identifier) pair: Bucket.key.
ReadBucket == <<PolicyEntriesReadParticipant, "p1">>
SmallBuckets == {<<"SMALL", "p1">>}
Buckets == {ReadBucket} \cup SmallBuckets
PolicyOf(b) == IF b[1] = "SMALL" THEN SmallPolicy ELSE DefaultPolicies[b[1]]

BucketTTL == 120     \* EXPIRE of both scripts, 2*time.Minute of Reset

NoKeys == [tokens |-> Nil, tokensExp |-> 0, last_refill |-> Nil, refillExp |-> 0]

\* Bucket.key with the identifier left out of the format.
keyPerPolicy(policy, identifier) == "rate_limit:" \o policy

\* Bucket.key: fmt.Sprintf("rate_limit:%s:%s", policy, identifier).
key(policy, identifier) == "rate_limit:" \o policy \o ":" \o identifier

tokensKey(policy, identifier) == key(policy, identifier) \o ":tokens"

lastRefillKey(policy, identifier) == key(policy, identifier) \o ":last_refill"

\* The (policy, identifier) pairs whose keys share one Redis: two participants
\* under one policy, the identifier of one (a request header) being the other's
\* followed by a key suffix, and one participant under two policies.
KeyBuckets == {<<"SMALL", "p1">>, <<"SMALL", "p1:tokens">>, ReadBucket}
RedisKeys == UNION {{tokensKey(b[1], b[2]), lastRefillKey(b[1], b[2])} : b \in KeyBuckets}

NoVal == [val |-> Nil, exp |-> 0]
NoBucket == <<"", "">>
NoKv == [redis |-> [x \in RedisKeys |-> NoVal],
         pend |-> [b \in KeyBuckets |-> Nil],
         op |-> NoBucket,
         n |-> 0]

\* What the two scripts read for a bucket: GET of its two keys.
GetKeys(redis, b) ==
    LET tk == redis[tokensKey(b[1], b[2])]
        lr == redis[lastRefillKey(b[1], b[2])]
    IN  [tokens |-> tk.val, tokensExp |-> tk.exp,
         last_refill |-> lr.val, refillExp |-> lr.exp]

\* What the two scripts write for a bucket: SET / EXPIRE on its two keys.
\* The last-refill key is written after the tokens key, as in the scripts.
SetKeys(redis, b, k) ==
    LET afterTokens == [redis EXCEPT ![tokensKey(b[1], b[2])] =
                            [val |-> k.tokens, exp |-> k.tokensExp]]
    IN  [afterTokens EXCEPT ![lastRefillKey(b[1], b[2])] =
                            [val |-> k.last_refill, exp |-> k.refillExp]]
NoChk == [now |-> Nil, remaining |-> Nil, allowed |-> FALSE, reset |-> Nil,
          refill |-> 0, repeat |-> 0, due |-> FALSE]
NoHist == [consumeAt |-> Nil, consumeLeft |-> Nil, afterCheck |-> FALSE,
           rejReset |-> Nil, anchorFrom |-> Nil, chainT |-> Nil, chainSum |-> 0,
           gone |-> FALSE]

\* redis.call('EXPIRE', key, ttl): only an existing key gets a time to live.
Expire(val, exp, t) == IF val = Nil THEN exp ELSE t + BucketTTL

\* refill_amount of the Lua script (ARGV[3] = now, the instance's clock).  The
\* script computes math.floor((now - last_refill) / 60 * refill_rate) in
\* doubles; for the rates modelled the quotient is exact wherever it is whole.
RefillAmount(p, k, now) ==
    LET last_refill == IF k.last_refill = Nil THEN now ELSE k.last_refill
    IN  ((now - last_refill) * p.RefillRate) \div 60

\* The script stamping last_refill at every call, owed a token or not.
RefillScriptStampAlways(p, k, now, t) ==
    LET tokens == IF k.tokens = Nil THEN p.BucketSize ELSE k.tokens
        refill_amount == RefillAmount(p, k, now)
        newTokens == IF refill_amount > 0
                     THEN Min(p.BucketSize, tokens + refill_amount) ELSE tokens
        tk == IF refill_amount > 0 THEN newTokens ELSE k.tokens
    IN  [keys |-> [tokens |-> tk, tokensExp |-> Expire(tk, k.tokensExp, t),
                   last_refill |-> now, refillExp |-> t + BucketTTL],
         result |-> newTokens, refill |-> Max(refill_amount, 0)]

\* The script with the SET of last_refill left out.
RefillScriptNoStamp(p, k, now, t) ==
    LET tokens == IF k.tokens = Nil THEN p.BucketSize ELSE k.tokens
        refill_amount == RefillAmount(p, k, now)
        newTokens == IF refill_amount > 0
                     THEN Min(p.BucketSize, tokens + refill_amount) ELSE tokens
        tk == IF refill_amount > 0 THEN newTokens ELSE k.tokens
    IN  [keys |-> [tokens |-> tk, tokensExp |-> Expire(tk, k.tokensExp, t),
                   last_refill |-> k.last_refill,
                   refillExp |-> Expire(k.last_refill, k.refillExp, t)],
         result |-> newTokens, refill |-> Max(refill_amount, 0)]

\* The script without the math.min against bucket_size.
RefillScriptNoCap(p, k, now, t) ==
    LET tokens == IF k.tokens = Nil THEN p.BucketSize ELSE k.tokens
        refill_amount == RefillAmount(p, k, now)
        newTokens == IF refill_amount > 0 THEN tokens + refill_amount ELSE tokens
        tk == IF refill_amount > 0 THEN newTokens ELSE k.tokens
        lr == IF refill_amount > 0 THEN now ELSE k.last_refill
    IN  [keys |-> [tokens |-> tk, tokensExp |-> Expire(tk, k.tokensExp, t),
                   last_refill |-> lr, refillExp |-> Expire(lr, k.refillExp, t)],
         result |-> newTokens, refill |-> Max(refill_amount, 0)]

\* The script taking a token at the check, as the legacy checkRateLimit did.
RefillScriptDeducting(p, k, now, t) ==
    LET tokens == IF k.tokens = Nil THEN p.BucketSize ELSE k.tokens
        refill_amount == RefillAmount(p, k, now)
        refilled == IF refill_amount > 0
                    THEN Min(p.BucketSize, tokens + refill_amount) ELSE tokens
        newTokens == Max(0, refilled - 1)
        lr == IF refill_amount > 0 THEN now ELSE k.last_refill
    IN  [keys |-> [tokens |-> newTokens, tokensExp |-> t + BucketTTL,
                   last_refill |-> lr, refillExp |-> Expire(lr, k.refillExp, t)],
         result |-> newTokens, refill |-> Max(refill_amount, 0)]

\* What the Lua script of getTokensWithRefill leaves in Redis (keys) and
\* returns (result); t is the Redis clock the EXPIREs count from.
RefillScript(p, k, now, t) ==
    LET tokens == IF k.tokens = Nil THEN p.BucketSize ELSE k.tokens
        refill_amount == RefillAmount(p, k, now)
        newTokens == IF refill_amount > 0
                     THEN Min(p.BucketSize, tokens + refill_amount) ELSE tokens
        tk == IF refill_amount > 0 THEN newTokens ELSE k.tokens
        lr == IF refill_amount > 0 THEN now ELSE k.last_refill
    IN  [keys |-> [tokens |-> tk, tokensExp |-> Expire(tk, k.tokensExp, t),
                   last_refill |-> lr, refillExp |-> Expire(lr, k.refillExp, t)],
         result |-> newTokens, refill |-> Max(refill_amount, 0)]

\* The deduction without the floor at zero.
DeductScriptNoFloor(p, k, cost, t) ==
    LET tokens == IF k.tokens = Nil THEN p.BucketSize ELSE k.tokens
    IN  [k EXCEPT !.tokens = tokens - cost, !.tokensExp = t + BucketTTL]

\* The deduction with the EXPIRE left out: a count keeps the expiry it had.
DeductScriptNoExpire(p, k, cost, t) ==
    LET tokens == IF k.tokens = Nil THEN p.BucketSize ELSE k.tokens
    IN  [k EXCEPT !.tokens = Max(0, tokens - cost),
                  !.tokensExp = IF k.tokens = Nil THEN t + BucketTTL ELSE @]

\* The Lua script of deduct: only the tokens key is written and given a TTL.
DeductScript(p, k, cost, t) ==
    LET tokens == IF k.tokens = Nil THEN p.BucketSize ELSE k.tokens
    IN  [k EXCEPT !.tokens = Max(0, tokens - cost), !.tokensExp = t + BucketTTL]

\* Consume without its shortcut: the deduct script runs for a zero cost, too.
ConsumeKeysAlwaysDeduct(p, k, cost, t) == DeductScript(p, k, cost, t)

\* Bucket.Consume on the keys: `if cost == 0 { return nil }`, else deduct.
ConsumeKeys(p, k, cost, t) == IF cost = 0 THEN k ELSE DeductScript(p, k, cost, t)

\* The token count a reader of the bucket sees (absent counts as full).
Tokens(b) == IF store[b].tokens = Nil THEN PolicyOf(b).BucketSize ELSE store[b].tokens

Nows(skews) == {clock + s : s \in skews} \cap Nat

(***************************************************************************)
(* internal/models/idempotency.go, internal/middleware/idempotency.go       *)
(***************************************************************************)
NoKey == ""          \* no X-Idempotency-Key header
IdemKeys == {"k1"}
Reqs == 1..NReq

\* Who sends a request and what it carries: request 1 comes from one
\* participant, the others from another, and no two bodies are alike.
CallerOf(r) == IF r = 1 THEN "psp-1" ELSE "psp-2"
BodyOf(r) == <<"body", r>>

\* The `key` values a filter of the repository can name: the header values,
\* and the header values qualified by a caller.
StoreKeys == IdemKeys \cup {CallerOf(r) \o "/" \o k : r \in Reqs, k \in IdemKeys}

\* The record looked up under the key qualified by the caller.
RecordKeyPerCaller(r) ==
    IF CallerOf(r) = "psp-1" THEN req[r].key ELSE CallerOf(r) \o "/" \o req[r].key

\* bson.M{"key": key}: the filter of FindByKey, ClaimKey and Save is the
\* header value alone; neither the caller nor the body enters it.
RecordKey(r) == req[r].key

\* What the downstream handler writes: the status and body the recorder
\* captures.  The third body is empty, which is no JSON.
Outcomes ==
    {[status |-> 201, body |-> "{\"key\":\"1\"}"],
     [status |-> 409, body |-> "{\"error\":\"KEY_ALREADY_EXISTS\"}"],
     [status |-> 500, body |-> ""],
     [status |-> 500, body |-> "{\"error\":\"INTERNAL_ERROR\"}"]}

\* json.Valid on the bodies modelled.
JsonValid(body) ==
    body \in {"{\"key\":\"1\"}", "{\"error\":\"KEY_ALREADY_EXISTS\"}",
              "{\"error\":\"INTERNAL_ERROR\"}"}

NoDoc == [Response |-> "", StatusCode |-> Nil]       \* mongo.ErrNoDocuments / nil
Processing == [Response |-> "", StatusCode |-> 0]    \* the $setOnInsert record
NoResp == [status |-> Nil, body |-> ""]
NoReq == [pc |-> "idle", key |-> NoKey, claimed |-> FALSE, record |-> NoDoc,
          err |-> FALSE, resp |-> NoResp, ran |-> FALSE, saveCalled |-> FALSE,
          since |-> NoDoc, raced |-> FALSE, lapsed |-> FALSE]

\* FindOneAndUpdate with the record written by $set instead of $setOnInsert.
UpsertSet(doc) == Processing

\* FindOneAndUpdate(filter, {$setOnInsert: record}, upsert): the document the
\* collection holds afterwards, given the one it held (NoDoc: none).
UpsertSetOnInsert(doc) == IF doc = NoDoc THEN Processing ELSE doc

\* The legacy claimIdempotencyKey: a before-image still in the processing
\* state (status 0) is answered as claimed, too.
ClaimResultLegacy(before) ==
    IF before = NoDoc \/ before.StatusCode = 0
    THEN [claimed |-> TRUE, record |-> NoDoc]
    ELSE [claimed |-> FALSE, record |-> before]

\* The legacy claim refusing a key whose record is still being processed.
claimIdempotencyKeyStrict(before) ==
    IF before = NoDoc
    THEN [claimed |-> TRUE, record |-> NoDoc]
    ELSE [claimed |-> FALSE, record |-> before]

\* What the legacy claimIdempotencyKey returns from the before-image of its
\* FindOneAndUpdate: a record with `existing.StatusCode != 0` is returned,
\* one still in the processing state falls through to `return true, nil, nil`.
claimIdempotencyKey(before) ==
    IF before = NoDoc THEN [claimed |-> TRUE, record |-> NoDoc]
    ELSE IF before.StatusCode # 0 THEN [claimed |-> FALSE, record |-> before]
    ELSE [claimed |-> TRUE, record |-> NoDoc]

\* What ClaimKey returns from the before-image of its FindOneAndUpdate:
\* ErrNoDocuments (no before-image) means this caller inserted the record.
ClaimResult(before) ==
    IF before = NoDoc
    THEN [claimed |-> TRUE, record |-> NoDoc]
    ELSE [claimed |-> FALSE, record |-> before]

\* Save: UpdateOne(filter, {$set: record}, upsert) stores the record given.
SaveDoc(response, statusCode) == [Response |-> response, StatusCode |-> statusCode]

\* The replay with the WriteHeader call left out (net/http then sends 200).
ReplayResponseNoHeader(record) == [status |-> 200, body |-> record.Response]

\* What Manager.Idempotency writes for an existing record.
ReplayResponse(record) == [status |-> record.StatusCode, body |-> record.Response]

(***************************************************************************)
(* middleware: RateLimiterWithPolicy, and the chain of POST /entries        *)
(***************************************************************************)
Bad == -2            \* a stored token value that is no number: tonumber gives nil
PipeReqs == 1..NPipe
Traced == {1}        \* the request followed through the limiter step by step
PipeBucket == <<"SMALL", "p1">>     \* all requests carry one X-Participant-Id

TooManyRequests == [status |-> 429, body |-> "{\"error\":\"TOO_MANY_REQUESTS\"}"]

\* The X-RateLimit-* headers of a response; "" is a header that is not set.
NoHeaders == [Limit |-> "", Remaining |-> "", Reset |-> "", Policy |-> ""]
NoState == [Allowed |-> FALSE, Remaining |-> Nil, Reset |-> Nil]

NoRl == [pc |-> "idle", enabled |-> TRUE, checked |-> FALSE, checkErr |-> FALSE,
         malformed |-> FALSE, rejected |-> FALSE, remaining |-> Nil,
         consumed |-> FALSE, consumeErr |-> FALSE, client |-> NoResp,
         state |-> NoState, headers |-> NoHeaders]

\* strconv.Itoa / strconv.FormatInt(n, 10): the decimal text of n.
Digit == <<"0", "1", "2", "3", "4", "5", "6", "7", "8", "9">>
RECURSIVE Itoa(_)
Itoa(n) ==
    IF n < 0 THEN "-" \o Itoa(-n)
    ELSE IF n < 10 THEN Digit[n + 1]
    ELSE Itoa(n \div 10) \o Digit[(n % 10) + 1]

\* The headers of the legacy RateLimiterMiddleware: no X-RateLimit-Policy.
setRateLimitHeadersLegacy(p, state) ==
    [Limit |-> Itoa(p.BucketSize), Remaining |-> Itoa(state.Remaining),
     Reset |-> Itoa(state.Reset), Policy |-> ""]

\* setRateLimitHeaders(w, policy, state).
setRateLimitHeaders(p, state) ==
    [Limit |-> Itoa(p.BucketSize), Remaining |-> Itoa(state.Remaining),
     Reset |-> Itoa(state.Reset), Policy |-> p.Name]

\* getTokensWithRefill: the script's reply as the Go code reads it.  On a
\* token value that is no number, `tokens` is nil in the script: with a refill
\* owed the addition raises an error (nothing has been written); without one
\* the script returns nil, go-redis reports redis.Nil, which the code lets
\* through, and the zero value of result is returned with a nil error.
getTokensWithRefill(p, k, now, t) ==
    IF k.tokens = Bad
    THEN IF RefillAmount(p, k, now) > 0
         THEN [keys |-> k, err |-> TRUE, result |-> 0]
         ELSE [keys |-> [k EXCEPT !.tokensExp = t + BucketTTL,
                                  !.refillExp = Expire(k.last_refill, k.refillExp, t)],
               err |-> FALSE, result |-> 0]
    ELSE LET r == RefillScript(p, k, now, t)
         IN  [keys |-> r.keys, err |-> FALSE, result |-> r.result]

\* The state with the allowance test off by one.
BucketStateOffByOne(tokens, now) ==
    [Allowed |-> tokens > 1, Remaining |-> tokens, Reset |-> now + 60]

\* The BucketState that Check builds from the token count.
BucketState(tokens, now) ==
    [Allowed |-> tokens > 0, Remaining |-> tokens, Reset |-> now + 60]

\* A failure of Consume answered to the client.
ClientResponseSurfaced(resp, err) == IF err THEN [status |-> 500, body |-> ""] ELSE resp

\* What the client has received once RateLimiterWithPolicy returns: the
\* result of Consume is discarded (`_ =`), the response was written by then.
ClientResponse(resp, err) == resp

\* responseCapture of RateLimiterWithPolicy: the first WriteHeader, or a Write
\* made before any, decides statusCode.
NewCapture == [statusCode |-> 200, written |-> FALSE]
CaptureWriteHeader(c, code) ==
    IF ~c.written THEN [statusCode |-> code, written |-> TRUE] ELSE c
CaptureWrite(c) ==
    IF ~c.written THEN [statusCode |-> 200, written |-> TRUE] ELSE c

\* responseRecorder of Idempotency: every WriteHeader overwrites statusCode,
\* Write appends to the body buffer (of which the number of chunks is kept).
NewRecorder == [statusCode |-> 200, body |-> 0]
RecorderWriteHeader(rr, code) == [rr EXCEPT !.statusCode = code]
RecorderWrite(rr) == [rr EXCEPT !.body = @ + 1]

MaxCalls == 3        \* calls a handler makes on its ResponseWriter
WriteCodes == {200, 201, 404, 500}

\* The chain composed the other way round: Idempotency outside the limiter.
InnerStartedEarly(r) == rl[r].pc \in {"check", "inner"}

\* Idempotency is the `next` of RateLimiterWithPolicy: it runs once the
\* limiter has called next.ServeHTTP.
InnerStarted(r) == rl[r].pc = "inner"

Init ==
    /\ clock = 0
    /\ store = [b \in Buckets |-> NoKeys]
    /\ resetPend = [b \in Buckets |-> Nil]
    /\ chk = [b \in Buckets |-> NoChk]
    /\ hist = [b \in Buckets |-> NoHist]
    /\ costIn = <<>>
    /\ costOut = Nil
    /\ pol = NoCall
    /\ wr = [calls |-> <<>>, capture |-> NewCapture, recorder |-> NewRecorder]
    /\ idem = [k \in StoreKeys |-> NoDoc]
    /\ req = [r \in Reqs |-> NoReq]
    /\ lastSave = [k \in IdemKeys |-> NoDoc]
    /\ born = [k \in IdemKeys |-> "none"]
    /\ rl = [r \in Reqs |-> NoRl]
    /\ kv = NoKv

\* A request reaches Manager.Idempotency with header value k.
Arrive(r, k) ==
    /\ req[r].pc = "idle"
    /\ req' = [req EXCEPT ![r] = [NoReq EXCEPT !.pc = IF k = NoKey THEN "next" ELSE "find",
                                              !.key = k]]
    /\ UNCHANGED <<pipeVars, bucketVars, costVars, idem, lastSave, born>>

\* ClaimKey, first half: FindByKey.  A record found is returned at once.
FindByKey(r) ==
    LET k == req[r].key
        f == RecordKey(r)
    IN  /\ req[r].pc = "find"
        /\ req' = [req EXCEPT ![r] =
                IF idem[f] # NoDoc
                THEN [@ EXCEPT !.pc = "replay", !.record = idem[f], !.since = lastSave[k]]
                ELSE [@ EXCEPT !.pc = "upsert", !.since = lastSave[k]]]
        /\ UNCHANGED <<pipeVars, bucketVars, costVars, idem, lastSave, born>>

\* ClaimKey, second half: FindOneAndUpdate with upsert, before-image returned.
FindOneAndUpdate(r) ==
    LET k == req[r].key
        f == RecordKey(r)
        res == ClaimResult(idem[f])
    IN  /\ req[r].pc = "upsert"
        /\ idem' = [idem EXCEPT ![f] = UpsertSetOnInsert(idem[f])]
        /\ req' = [req EXCEPT ![r] =
                [@ EXCEPT !.pc = IF ~res.claimed /\ res.record # NoDoc
                                 THEN "replay" ELSE "handler",
                          !.claimed = res.claimed, !.record = res.record,
                          !.raced = ~res.claimed]]
        /\ born' = [born EXCEPT ![k] = IF idem[f] = NoDoc THEN "ClaimKey" ELSE @]
        /\ UNCHANGED <<pipeVars, bucketVars, costVars, lastSave>>

\* A failure of ClaimKey answered to the client with a 500.
ClaimErrorClosed(r) ==
    /\ req[r].pc \in {"find", "upsert"}
    /\ req' = [req EXCEPT ![r].pc = "done", ![r].err = TRUE,
                          ![r].resp = [status |-> 500, body |-> ""]]
    /\ UNCHANGED <<pipeVars, bucketVars, costVars, idem, lastSave, born>>

\* Either store call of ClaimKey fails (unreachable, timed out): ClaimKey
\* returns the error and the middleware passes the request on.
ClaimError(r) ==
    /\ req[r].pc \in {"find", "upsert"}
    /\ req' = [req EXCEPT ![r].pc = "next", ![r].err = TRUE]
    /\ UNCHANGED <<pipeVars, bucketVars, costVars, idem, lastSave, born>>

\* `!claimed && record != nil`: the record is written out and the middleware
\* returns.  net/http panics on a status code outside 100..999.
Replay(r) ==
    /\ req[r].pc = "replay"
    /\ req' = [req EXCEPT ![r] =
            IF req[r].record.StatusCode < 100 \/ req[r].record.StatusCode > 999
            THEN [@ EXCEPT !.pc = "panic"]
            ELSE [@ EXCEPT !.pc = "done", !.resp = ReplayResponse(req[r].record)]]
    /\ UNCHANGED <<pipeVars, bucketVars, costVars, idem, lastSave, born>>

\* The handler's response recorded and saved for every request, keyed or not.
HandlerAlwaysRecorded(r, o) ==
    /\ req[r].pc \in {"handler", "next"}
    /\ req' = [req EXCEPT ![r].resp = o, ![r].ran = TRUE,
                          ![r].pc = IF JsonValid(o.body) THEN "save" ELSE "done"]
    /\ UNCHANGED <<pipeVars, bucketVars, costVars, idem, lastSave, born>>

\* The response saved only if its status is below 400.
HandlerSavesSuccessOnly(r, o) ==
    /\ req[r].pc \in {"handler", "next"}
    /\ req' = [req EXCEPT ![r].resp = o, ![r].ran = TRUE,
                          ![r].pc = IF /\ req[r].pc = "handler" /\ JsonValid(o.body)
                                       /\ o.status < 400
                                    THEN "save" ELSE "done"]
    /\ UNCHANGED <<pipeVars, bucketVars, costVars, idem, lastSave, born>>

\* next.ServeHTTP(recorder, r) for the claimant, next.ServeHTTP(w, r) for a
\* request without key or whose ClaimKey failed.
Handler(r, o) ==
    /\ req[r].pc \in {"handler", "next"}
    /\ req' = [req EXCEPT ![r].resp = o, ![r].ran = TRUE,
                          ![r].pc = IF req[r].pc = "handler" /\ JsonValid(o.body)
                                    THEN "save" ELSE "done"]
    /\ UNCHANGED <<pipeVars, bucketVars, costVars, idem, lastSave, born>>

\* idempotencyRepo.Save(key, responseBody, recorder.statusCode).
Save(r) ==
    LET k == req[r].key
        f == RecordKey(r)
        doc == SaveDoc(req[r].resp.body, req[r].resp.status)
    IN  /\ req[r].pc = "save"
        /\ idem' = [idem EXCEPT ![f] = doc]
        /\ lastSave' = [lastSave EXCEPT ![k] = [Response |-> req[r].resp.body,
                                                StatusCode |-> req[r].resp.status]]
        /\ req' = [req EXCEPT ![r].pc = "done", ![r].saveCalled = TRUE]
        /\ born' = [born EXCEPT ![k] = IF idem[f] = NoDoc THEN "Save" ELSE @]
        /\ UNCHANGED <<pipeVars, bucketVars, costVars>>

\* Save fails; its error is dropped by the middleware.
SaveError(r) ==
    /\ req[r].pc = "save"
    /\ req' = [req EXCEPT ![r].pc = "done", ![r].saveCalled = TRUE]
    /\ UNCHANGED <<pipeVars, bucketVars, costVars, idem, lastSave, born>>

\* The TTL index on createdAt removes the document of key k.  The requests
\* whose ClaimKey has returned are marked: the record they saw has lapsed.
ExpireDoc(k) ==
    /\ idem[k] # NoDoc
    /\ idem' = [idem EXCEPT ![k] = NoDoc]
    /\ lastSave' = [lastSave EXCEPT ![k] = NoDoc]
    /\ req' = [r \in Reqs |->
            IF req[r].key = k /\ req[r].pc \notin {"idle", "find", "upsert"}
            THEN [req[r] EXCEPT !.lapsed = TRUE] ELSE req[r]]
    /\ born' = [born EXCEPT ![k] = "none"]
    /\ UNCHANGED <<pipeVars, bucketVars, costVars>>

NextIdem ==
    \/ \E r \in Reqs, k \in IdemKeys \cup {NoKey} : Arrive(r, k)
    \/ \E r \in Reqs : FindByKey(r)
    \/ \E r \in Reqs : FindOneAndUpdate(r)
    \/ \E r \in Reqs : ClaimError(r)
    \/ \E r \in Reqs : Replay(r)
    \/ \E r \in Reqs, o \in Outcomes : Handler(r, o)
    \/ \E r \in Reqs : Save(r)
    \/ \E r \in Reqs : SaveError(r)
    \/ \E k \in IdemKeys : ExpireDoc(k)

SpecIdem == Init /\ [][NextIdem]_vars

\* Bucket.Check: the script runs as one Redis command; Allowed, Remaining and
\* Reset are computed from its result.  `now` is the instance's clock.  g names
\* the histories kept.
Check(b, now, g) ==
    LET p == PolicyOf(b)
        r == RefillScript(p, store[b], now, clock)
        h == hist[b]
        again == chk[b].now = now
    IN  /\ store' = [store EXCEPT ![b] = r.keys]
        /\ chk' = [chk EXCEPT ![b] =
                [now |-> now, remaining |-> r.result, allowed |-> r.result > 0,
                 reset |-> now + 60, refill |-> r.refill,
                 repeat |-> IF ~again THEN 0
                            ELSE IF chk[b].refill > 0 \/ chk[b].repeat = 2 THEN 2 ELSE 1,
                 due |-> "rej" \in g /\ h.rejReset # Nil /\ now >= h.rejReset]]
        /\ hist' = [hist EXCEPT ![b] =
                [h EXCEPT !.rejReset = IF "rej" \in g /\ ~(r.result > 0) /\ h.rejReset = Nil
                                       THEN now + 60 ELSE h.rejReset,
                          !.chainT = IF r.refill > 0 THEN Nil ELSE h.chainT,
                          !.chainSum = IF r.refill > 0 THEN 0 ELSE h.chainSum]]
        /\ UNCHANGED <<clock, resetPend, costVars, idemVars, pipeVars>>

\* Bucket.Consume: nothing is sent to Redis for a zero cost; otherwise deduct.
Consume(b, statusCode, g) ==
    LET p == PolicyOf(b)
        cost == CostForStatus(p, statusCode)
        h == hist[b]
        k == DeductScript(p, store[b], cost, clock)
    IN  IF cost = 0
        THEN UNCHANGED vars
        ELSE /\ store' = [store EXCEPT ![b] = k]
             /\ chk' = [chk EXCEPT ![b] = NoChk]
             /\ hist' = [hist EXCEPT ![b] =
                     [consumeAt |-> IF "lazy" \in g THEN clock ELSE Nil,
                      consumeLeft |-> IF {"lazy", "anchor"} \cap g # {} THEN k.tokens ELSE Nil,
                      afterCheck |-> "lazy" \in g /\ chk[b] # NoChk,
                      rejReset |-> Nil,
                      anchorFrom |-> IF "anchor" \in g THEN store[b].last_refill ELSE Nil,
                      chainT |-> IF "chain" \in g
                                 THEN (IF h.chainT = Nil THEN Tokens(b) ELSE h.chainT)
                                 ELSE Nil,
                      chainSum |-> IF "chain" \in g
                                   THEN Min(p.BucketSize, h.chainSum + cost) ELSE 0,
                      gone |-> h.gone]]
             /\ UNCHANGED <<clock, resetPend, costVars, idemVars, pipeVars>>

\* Reset writing the refill rate where the bucket size belongs.
ResetTokensToRate(b, now) ==
    /\ resetPend[b] = Nil
    /\ resetPend' = [resetPend EXCEPT ![b] = now]
    /\ store' = [store EXCEPT ![b].tokens = PolicyOf(b).RefillRate,
                              ![b].tokensExp = clock + BucketTTL]
    /\ chk' = [chk EXCEPT ![b] = NoChk]
    /\ hist' = [hist EXCEPT ![b] = NoHist]
    /\ UNCHANGED <<clock, costVars, idemVars, pipeVars>>

\* Bucket.Reset is a plain pipeline (no MULTI): its two SETs are two Redis
\* commands, and commands of other clients may run between them.
ResetTokens(b, now) ==
    /\ resetPend[b] = Nil
    /\ resetPend' = [resetPend EXCEPT ![b] = now]
    /\ store' = [store EXCEPT ![b].tokens = PolicyOf(b).BucketSize,
                              ![b].tokensExp = clock + BucketTTL]
    /\ chk' = [chk EXCEPT ![b] = NoChk]
    /\ hist' = [hist EXCEPT ![b] = NoHist]
    /\ UNCHANGED <<clock, costVars, idemVars, pipeVars>>

ResetLastRefill(b) ==
    /\ resetPend[b] # Nil
    /\ resetPend' = [resetPend EXCEPT ![b] = Nil]
    /\ store' = [store EXCEPT ![b].last_refill = resetPend[b],
                              ![b].refillExp = clock + BucketTTL]
    /\ chk' = [chk EXCEPT ![b] = NoChk]
    /\ hist' = [hist EXCEPT ![b].anchorFrom = Nil]
    /\ UNCHANGED <<clock, costVars, idemVars, pipeVars>>

\* Redis drops the keys whose time to live has run out by instant t.
ExpireKeys(k, t) ==
    LET tGone == k.tokens # Nil /\ k.tokensExp <= t
        rGone == k.last_refill # Nil /\ k.refillExp <= t
    IN  [tokens |-> IF tGone THEN Nil ELSE k.tokens,
         tokensExp |-> IF tGone THEN 0 ELSE k.tokensExp,
         last_refill |-> IF rGone THEN Nil ELSE k.last_refill,
         refillExp |-> IF rGone THEN 0 ELSE k.refillExp]

\* Time passes.
Tick ==
    /\ clock + TickLen <= MaxTicks * TickLen
    /\ clock' = clock + TickLen
    /\ store' = [b \in Buckets |-> ExpireKeys(store[b], clock')]
    /\ chk' = [b \in Buckets |-> IF store'[b] # store[b] THEN NoChk ELSE chk[b]]
    /\ hist' = [b \in Buckets |->
            IF store'[b] = store[b] THEN hist[b]
            ELSE [hist[b] EXCEPT
                    !.anchorFrom = Nil,
                    !.gone = @ \/ (store[b].tokens # Nil /\ store'[b].tokens = Nil),
                    !.chainT = IF store'[b].tokens = Nil THEN Nil ELSE @,
                    !.chainSum = IF store'[b].tokens = Nil THEN 0 ELSE @]]
    /\ UNCHANGED <<resetPend, costVars, idemVars, pipeVars>>

\* The bucket under instances with skewed clocks, Reset included.
NextBucket ==
    \/ \E b \in SmallBuckets, now \in Nows(Skewed) : Check(b, now, {"chain"})
    \/ \E b \in SmallBuckets, s \in ConsumeStatuses : Consume(b, s, {"chain"})
    \/ \E b \in SmallBuckets, now \in Nows(Skewed) : ResetTokens(b, now)
    \/ \E b \in SmallBuckets : ResetLastRefill(b)
    \/ Tick

SpecBucket == Init /\ [][NextBucket]_vars

\* The antiscan bucket on one time line (no skew), Reset included.
NextRefill ==
    \/ \E b \in {ReadBucket}, now \in Nows(Unskewed) : Check(b, now, {"anchor"})
    \/ \E b \in {ReadBucket}, s \in ConsumeStatuses : Consume(b, s, {"anchor"})
    \/ \E b \in {ReadBucket}, now \in Nows(Unskewed) : ResetTokens(b, now)
    \/ \E b \in {ReadBucket} : ResetLastRefill(b)
    \/ Tick

SpecRefill == Init /\ [][NextRefill]_vars

\* The bucket as the server uses it: created by the first Check, never Reset.
NextLazy ==
    \/ \E now \in Nows(Unskewed) : Check(ReadBucket, now, {"lazy", "rej"})
    \/ \E s \in ConsumeStatuses : Consume(ReadBucket, s, {"lazy", "rej"})
    \/ Tick

SpecLazy == Init /\ [][NextLazy]_vars

\* Policy.CostForStatus applied to one (policy, status) input.
ApplyCost(p, statusCode) ==
    /\ costIn' = <<p, statusCode>>
    /\ costOut' = CostForStatus(p, statusCode)
    /\ UNCHANGED <<bucketVars, idemVars, pipeVars, pol, wr, kv>>

NextCost == \E p \in CostPolicies, s \in Statuses : ApplyCost(p, s)

SpecCost == Init /\ [][NextCost]_vars

\* A caller asks for DefaultPolicies() and GetPolicy(name).
ApplyGetPolicy(name) ==
    /\ pol' = [called |-> TRUE, name |-> name, got |-> GetPolicy(name),
               all |-> DefaultPolicies, scribbled |-> FALSE]
    /\ UNCHANGED <<bucketVars, idemVars, pipeVars, costIn, costOut, wr, kv>>

\* The caller writes to what it was given: GetPolicy returned the address of
\* a copy and DefaultPolicies a map built by that call, so only the caller's
\* values change.
Scribble ==
    /\ pol.called /\ ~pol.scribbled
    /\ pol' = [pol EXCEPT !.got.BucketSize = 0, !.got.NotFoundCost = 0,
                          !.all = <<>>, !.scribbled = TRUE]
    /\ UNCHANGED <<bucketVars, idemVars, pipeVars, costIn, costOut, wr, kv>>

\* The handler calls WriteHeader(code) on the recorder, which records and
\* forwards the call to the capture beneath it.
HandlerWriteHeader(code) ==
    /\ Len(wr.calls) < MaxCalls
    /\ wr' = [calls |-> Append(wr.calls, <<"WriteHeader", code>>),
              capture |-> CaptureWriteHeader(wr.capture, code),
              recorder |-> RecorderWriteHeader(wr.recorder, code)]
    /\ UNCHANGED <<bucketVars, idemVars, pipeVars, costIn, costOut, pol, kv>>

\* The handler calls Write on the recorder, forwarded likewise.
HandlerWrite ==
    /\ Len(wr.calls) < MaxCalls
    /\ wr' = [calls |-> Append(wr.calls, <<"Write">>),
              capture |-> CaptureWrite(wr.capture),
              recorder |-> RecorderWrite(wr.recorder)]
    /\ UNCHANGED <<bucketVars, idemVars, pipeVars, costIn, costOut, pol, kv>>

NextWrites ==
    \/ \E code \in WriteCodes : HandlerWriteHeader(code)
    \/ HandlerWrite

SpecWrites == Init /\ [][NextWrites]_vars

NextRegistry ==
    \/ \E name \in PolicyNames : ApplyGetPolicy(name)
    \/ Scribble
    \/ \E s \in Statuses : pol.got # NilPolicy /\ ApplyCost(pol.got, s)

SpecRegistry == Init /\ [][NextRegistry]_vars

\* The TTL index removes the document of key k while no request carrying k is
\* in flight: the 24 hours of the index against a request's few seconds.
ExpireIdle(k) ==
    /\ \A r \in Reqs : req[r].key = k => req[r].pc \in {"idle", "done", "panic"}
    /\ ExpireDoc(k)

\* The upsert of the legacy claimIdempotencyKey.
LegacyFindOneAndUpdate(r) ==
    LET k == req[r].key
        f == RecordKey(r)
        res == claimIdempotencyKey(idem[f])
    IN  /\ req[r].pc = "upsert"
        /\ idem' = [idem EXCEPT ![f] = UpsertSetOnInsert(idem[f])]
        /\ req' = [req EXCEPT ![r] =
                [@ EXCEPT !.pc = IF ~res.claimed /\ res.record # NoDoc
                                 THEN "replay" ELSE "handler",
                          !.claimed = res.claimed, !.record = res.record,
                          !.raced = idem[f] # NoDoc]]
        /\ born' = [born EXCEPT ![k] = IF idem[f] = NoDoc THEN "ClaimKey" ELSE @]
        /\ UNCHANGED <<pipeVars, bucketVars, costVars, lastSave>>

\* The legacy IdempotencyMiddleware: FindIdempotencyRecord and
\* SaveIdempotencyRecord run the same store calls as FindByKey and Save, and
\* the middleware takes the same branches; only the claim differs.
NextLegacy ==
    \/ \E r \in Reqs, k \in IdemKeys \cup {NoKey} : Arrive(r, k)
    \/ \E r \in Reqs : FindByKey(r)
    \/ \E r \in Reqs : LegacyFindOneAndUpdate(r)
    \/ \E r \in Reqs : ClaimError(r)
    \/ \E r \in Reqs : Replay(r)
    \/ \E r \in Reqs, o \in Outcomes : Handler(r, o)
    \/ \E r \in Reqs : Save(r)
    \/ \E r \in Reqs : SaveError(r)
    \/ \E k \in IdemKeys : ExpireIdle(k)

SpecLegacy == Init /\ [][NextLegacy]_vars

\* Manager.Idempotency with records that outlive every request.
NextOnce ==
    \/ \E r \in Reqs, k \in IdemKeys \cup {NoKey} : Arrive(r, k)
    \/ \E r \in Reqs : FindByKey(r)
    \/ \E r \in Reqs : FindOneAndUpdate(r)
    \/ \E r \in Reqs : ClaimError(r)
    \/ \E r \in Reqs : Replay(r)
    \/ \E r \in Reqs, o \in Outcomes : Handler(r, o)
    \/ \E r \in Reqs : Save(r)
    \/ \E r \in Reqs : SaveError(r)
    \/ \E k \in IdemKeys : ExpireIdle(k)

SpecOnce == Init /\ [][NextOnce]_vars

\* A request enters RateLimiterWithPolicy.  en: rateLimitEnabled and a
\* rateLimiter are set on the Manager serving it; if not, next is called at once.
RLArrive(r, en) ==
    /\ rl[r].pc = "idle" /\ req[r].pc = "idle"
    /\ rl' = [rl EXCEPT ![r] = [NoRl EXCEPT !.pc = IF en THEN "check" ELSE "inner",
                                            !.enabled = en]]
    /\ UNCHANGED <<bucketVars, costVars, idemVars>>

\* m.rateLimiter.Check returns: an error passes the request on; otherwise the
\* headers are set and a state that is not Allowed is answered with 429.
RLCheck(r) ==
    LET b == PipeBucket
        reply == getTokensWithRefill(PolicyOf(b), store[b], clock, clock)
        state == BucketState(reply.result, clock)
    IN  /\ rl[r].pc = "check"
        /\ store' = [store EXCEPT ![b] = reply.keys]
        /\ chk' = [chk EXCEPT ![b] = NoChk]
        /\ hist' = [hist EXCEPT ![b] = NoHist]
        /\ rl' = [rl EXCEPT ![r] =
                IF reply.err
                THEN [@ EXCEPT !.pc = "inner", !.checkErr = TRUE,
                               !.malformed = store[b].tokens = Bad]
                ELSE IF ~state.Allowed
                THEN [@ EXCEPT !.pc = "done", !.checked = TRUE, !.rejected = TRUE,
                               !.malformed = store[b].tokens = Bad,
                               !.remaining = state.Remaining,
                               !.state = state,
                               !.headers = setRateLimitHeaders(PolicyOf(b), state),
                               !.client = TooManyRequests]
                ELSE [@ EXCEPT !.pc = "inner", !.checked = TRUE,
                               !.malformed = store[b].tokens = Bad,
                               !.remaining = state.Remaining,
                               !.state = state,
                               !.headers = setRateLimitHeaders(PolicyOf(b), state)]]
        /\ UNCHANGED <<clock, resetPend, costVars, idemVars>>

\* A failure of Check answered with 429.
RLCheckErrorClosed(r) ==
    /\ rl[r].pc = "check"
    /\ rl' = [rl EXCEPT ![r].pc = "done", ![r].checkErr = TRUE,
                        ![r].client = TooManyRequests]
    /\ UNCHANGED <<bucketVars, costVars, idemVars>>

\* Redis is unreachable or times out during Check: fail open.
RLCheckError(r) ==
    /\ rl[r].pc = "check"
    /\ rl' = [rl EXCEPT ![r].pc = "inner", ![r].checkErr = TRUE]
    /\ UNCHANGED <<bucketVars, costVars, idemVars>>

\* The limiter inside the idempotency middleware: a request answered from a
\* record never reaches Consume.
RLConsumeHandlerOnly(r) ==
    LET b == PipeBucket
        p == PolicyOf(b)
        cost == CostForStatus(p, req[r].resp.status)
        accounted == rl[r].enabled /\ ~rl[r].checkErr /\ req[r].ran
    IN  /\ rl[r].pc = "inner" /\ req[r].pc = "done"
        /\ store' = IF accounted
                    THEN [store EXCEPT ![b] = ConsumeKeys(p, store[b], cost, clock)]
                    ELSE store
        /\ chk' = [chk EXCEPT ![b] = NoChk]
        /\ hist' = [hist EXCEPT ![b] = NoHist]
        /\ rl' = [rl EXCEPT ![r].pc = "done", ![r].consumed = accounted,
                            ![r].client = ClientResponse(req[r].resp, FALSE)]
        /\ UNCHANGED <<clock, resetPend, costVars, idemVars>>

\* next.ServeHTTP has returned.  Consume is called with the captured status
\* only on the path that went through a successful Check.
RLConsume(r) ==
    LET b == PipeBucket
        p == PolicyOf(b)
        cost == CostForStatus(p, req[r].resp.status)
        accounted == rl[r].enabled /\ ~rl[r].checkErr
    IN  /\ rl[r].pc = "inner" /\ req[r].pc = "done"
        /\ accounted /\ cost > 0 => store[b].tokens # Bad
        /\ store' = IF accounted
                    THEN [store EXCEPT ![b] = ConsumeKeys(p, store[b], cost, clock)]
                    ELSE store
        /\ chk' = [chk EXCEPT ![b] = NoChk]
        /\ hist' = [hist EXCEPT ![b] = NoHist]
        /\ rl' = [rl EXCEPT ![r].pc = "done", ![r].consumed = accounted,
                            ![r].client = ClientResponse(req[r].resp, FALSE)]
        /\ UNCHANGED <<clock, resetPend, costVars, idemVars>>

\* Consume fails (Redis unreachable, or the script fails on a token value
\* that is no number): the error is discarded.  A Consume of cost zero sends
\* nothing to Redis and cannot fail.
RLConsumeError(r) ==
    /\ rl[r].pc = "inner" /\ req[r].pc = "done"
    /\ rl[r].enabled /\ ~rl[r].checkErr
    /\ CostForStatus(PolicyOf(PipeBucket), req[r].resp.status) > 0
    /\ rl' = [rl EXCEPT ![r].pc = "done", ![r].consumed = TRUE, ![r].consumeErr = TRUE,
                        ![r].client = ClientResponse(req[r].resp, TRUE)]
    /\ UNCHANGED <<bucketVars, costVars, idemVars>>

\* The panic of WriteHeader unwinds through RateLimiterWithPolicy: Consume is
\* not reached and net/http aborts the connection.
RLPanic(r) ==
    /\ rl[r].pc = "inner" /\ req[r].pc = "panic"
    /\ rl' = [rl EXCEPT ![r].pc = "aborted"]
    /\ UNCHANGED <<bucketVars, costVars, idemVars>>

\* The token value of an existing bucket is overwritten with a non-number.
Corrupt(b) ==
    /\ store[b].tokens \notin {Nil, Bad}
    /\ store' = [store EXCEPT ![b].tokens = Bad]
    /\ chk' = [chk EXCEPT ![b] = NoChk]
    /\ hist' = [hist EXCEPT ![b] = NoHist]
    /\ UNCHANGED <<clock, resetPend, costVars, idemVars, pipeVars>>

\* POST /entries: Auth -> RateLimiterWithPolicy -> Idempotency -> handler, for
\* NPipe requests of one participant.  The traced request is followed through
\* every step of the chain; of the others, the steps that write shared state
\* are kept: their Idempotency steps and their Consume calls.
NextPipe ==
    \/ \E r \in Traced, en \in BOOLEAN : RLArrive(r, en)
    \/ \E r \in Traced : RLCheck(r)
    \/ \E r \in Traced : RLCheckError(r)
    \/ \E r \in PipeReqs, k \in IdemKeys \cup {NoKey} :
            (r \in Traced => InnerStarted(r)) /\ Arrive(r, k)
    \/ \E r \in PipeReqs : FindByKey(r)
    \/ \E r \in PipeReqs : FindOneAndUpdate(r)
    \/ \E r \in PipeReqs : ClaimError(r)
    \/ \E r \in PipeReqs : Replay(r)
    \/ \E r \in PipeReqs, o \in Outcomes : Handler(r, o)
    \/ \E r \in PipeReqs : Save(r)
    \/ \E r \in PipeReqs : SaveError(r)
    \/ \E r \in Traced : RLConsume(r)
    \/ \E r \in Traced : RLConsumeError(r)
    \/ \E r \in Traced : RLPanic(r)
    \/ \E s \in {200, 404} : Consume(PipeBucket, s, {})

SpecPipe == Init /\ [][NextPipe]_vars

\* NPipe requests of one participant on a route with the limiter only, each
\* followed through Check, handler and Consume, after earlier traffic has
\* drawn on the bucket.
NextAdmit ==
    \/ \E s \in {200, 404} :
            /\ \A r \in PipeReqs : rl[r].pc = "idle"
            /\ Consume(PipeBucket, s, {})
    \/ \E r \in PipeReqs : RLArrive(r, TRUE)
    \/ \E r \in PipeReqs : RLCheck(r)
    \/ \E r \in PipeReqs : InnerStarted(r) /\ Arrive(r, NoKey)
    \/ \E r \in PipeReqs, o \in Outcomes : Handler(r, o)
    \/ \E r \in PipeReqs : RLConsume(r)

SpecAdmit == Init /\ [][NextAdmit]_vars

\* Check, Consume and Reset on the key strings of Bucket.key.
KeyCheck(b, now) ==
    LET r == RefillScript(PolicyOf(b), GetKeys(kv.redis, b), now, clock)
    IN  /\ kv.n < KeyOps
        /\ kv' = [kv EXCEPT !.redis = SetKeys(@, b, r.keys), !.op = b, !.n = @ + 1]
        /\ UNCHANGED <<bucketVars, costIn, costOut, pol, wr, idemVars, pipeVars>>

KeyConsume(b, statusCode) ==
    LET p == PolicyOf(b)
        k == ConsumeKeys(p, GetKeys(kv.redis, b), CostForStatus(p, statusCode), clock)
    IN  /\ kv.n < KeyOps
        /\ kv' = [kv EXCEPT !.redis = SetKeys(@, b, k), !.op = b, !.n = @ + 1]
        /\ UNCHANGED <<bucketVars, costIn, costOut, pol, wr, idemVars, pipeVars>>

KeyResetTokens(b, now) ==
    /\ kv.pend[b] = Nil
    /\ kv.n < KeyOps
    /\ kv' = [kv EXCEPT !.redis[tokensKey(b[1], b[2])] =
                            [val |-> PolicyOf(b).BucketSize, exp |-> clock + BucketTTL],
                        !.pend[b] = now,
                        !.op = b,
                        !.n = @ + 1]
    /\ UNCHANGED <<bucketVars, costIn, costOut, pol, wr, idemVars, pipeVars>>

KeyResetLastRefill(b) ==
    /\ kv.pend[b] # Nil
    /\ kv.n < KeyOps
    /\ kv' = [kv EXCEPT !.redis[lastRefillKey(b[1], b[2])] =
                            [val |-> kv.pend[b], exp |-> clock + BucketTTL],
                        !.pend[b] = Nil,
                        !.op = b,
                        !.n = @ + 1]
    /\ UNCHANGED <<bucketVars, costIn, costOut, pol, wr, idemVars, pipeVars>>

\* Time passes for the keys, two ticks at a time: Redis drops those whose time to live has run out.
KeyTick ==
    /\ kv.n < KeyOps
    /\ clock' = clock + 2 * TickLen
    /\ kv' = [kv EXCEPT !.redis = [x \in RedisKeys |->
                            IF @[x].val # Nil /\ @[x].exp <= clock' THEN NoVal ELSE @[x]],
                        !.op = NoBucket,
                        !.n = @ + 1]
    /\ UNCHANGED <<store, resetPend, chk, hist, costIn, costOut, pol, wr,
                   idemVars, pipeVars>>

\* Several buckets in one Redis, on one time line.
NextKeys ==
    \/ \E b \in KeyBuckets, now \in Nows(Unskewed) : KeyCheck(b, now)
    \/ \E b \in KeyBuckets, s \in {200, 404} : KeyConsume(b, s)
    \/ \E b \in KeyBuckets, now \in Nows(Unskewed) : KeyResetTokens(b, now)
    \/ \E b \in KeyBuckets : KeyResetLastRefill(b)
    \/ KeyTick

SpecKeys == Init /\ [][NextKeys]_vars

\* One request without idempotency key against a bucket whose token value
\* may be overwritten, with Reset and the passing of time.
NextMalformed ==
    \/ \E en \in {TRUE} : RLArrive(1, en)
    \/ RLCheck(1)
    \/ RLCheckError(1)
    \/ InnerStarted(1) /\ Arrive(1, NoKey)
    \/ \E o \in Outcomes : Handler(1, o)
    \/ RLConsume(1)
    \/ RLConsumeError(1)
    \/ \E now \in Nows(Unskewed) : ResetTokens(PipeBucket, now)
    \/ ResetLastRefill(PipeBucket)
    \/ Corrupt(PipeBucket)
    \/ Tick

SpecMalformed == Init /\ [][NextMalformed]_vars

Next == NextBucket \/ NextRefill \/ NextLazy \/ NextCost \/ NextRegistry \/ NextWrites \/ NextIdem \/ NextPipe \/ NextMalformed
            \/ NextOnce \/ NextLegacy \/ NextAdmit \/ NextKeys

Spec == Init /\ [][Next]_vars

(***************************************************************************)
(* Properties                                                              *)
(***************************************************************************)
\* The requests whose ClaimKey(k) has returned during the present lifetime of
\* the record of k.
Returned(k) ==
    {r \in Reqs : req[r].key = k /\ ~req[r].lapsed
                  /\ req[r].pc \notin {"idle", "find", "upsert"}}

\* C1: among the ClaimKey calls on one key that had no record before them
\* (the present one was inserted by a ClaimKey) and that have returned, none
\* with a store error, while that record has not expired, exactly one
\* returned claimed=true with no record and every other one returned
\* claimed=false with a record.
C1_AtMostOneClaim ==
    \A k \in IdemKeys :
        (born[k] # "Save" /\ Returned(k) # {} /\ \A r \in Returned(k) : ~req[r].err) =>
            \E w \in Returned(k) :
                /\ req[w].claimed /\ req[w].record = NoDoc
                /\ \A r \in Returned(k) \ {w} : ~req[r].claimed /\ req[r].record # NoDoc

\* C1 witness: all NReq calls on k1 have returned without error, and one of
\* the losers lost the race inside FindOneAndUpdate (its FindByKey saw nothing).
C1_Witness ==
    /\ Returned("k1") = Reqs
    /\ \A r \in Reqs : ~req[r].err
    /\ \E r \in Reqs : req[r].raced

\* C2: a request answered from a completed record got exactly the recorded
\* status and body, its handler was not invoked and no Save was called for it.
C2_Replay ==
    \A r \in Reqs :
        (req[r].pc = "done" /\ req[r].record # NoDoc /\ req[r].record.StatusCode # 0) =>
            /\ req[r].resp.status = req[r].record.StatusCode
            /\ req[r].resp.body = req[r].record.Response
            /\ ~req[r].ran
            /\ ~req[r].saveCalled

\* C2 witness: a request was answered from the record of a 409 response.
C2_Witness ==
    \E r \in Reqs :
        /\ req[r].pc = "done" /\ req[r].record.StatusCode = 409
        /\ req[r].resp.status = 409

\* C3: a ClaimKey issued after a Save on its key completed (and before the
\* record expired) returns claimed=false with the body and status of the
\* latest Save, however many ClaimKey calls were made in between.
C3_ReplayFidelity ==
    \A r \in Reqs :
        (req[r].since # NoDoc /\ req[r].pc # "find") =>
            /\ ~req[r].claimed
            /\ req[r].record = req[r].since

\* C3 witness: two calls issued after the Save both got the saved record back.
C3_Witness ==
    \E r1, r2 \in Reqs :
        /\ r1 # r2
        /\ req[r1].since # NoDoc /\ req[r1].record = req[r1].since
        /\ req[r2].since # NoDoc /\ req[r2].record = req[r2].since
        /\ req[r1].record.StatusCode = 201

\* C4: the stored token count of every bucket is within 0..BucketSize.
C4_TokenBounds ==
    \A b \in Buckets :
        store[b].tokens # Nil =>
            (0 <= store[b].tokens /\ store[b].tokens <= PolicyOf(b).BucketSize)

\* C4 witness: Consume calls costing more than the bucket held left it at 0
\* while a Reset was between its two writes.
C4_Witness ==
    \E b \in SmallBuckets :
        /\ store[b].tokens = 0
        /\ hist[b].chainT # Nil /\ hist[b].chainSum > hist[b].chainT
        /\ store[b].last_refill # Nil

\* C5 (as claimed): on a bucket that was never Reset, a Check made e seconds
\* after Check-then-Consume left t tokens returns
\* min(capacity, t + floor(e * refillRate / 60)).  Stated for e >= 60 only,
\* where the claim's formula and its two examples agree that a refill is owed.
C5_LazyRefill ==
    LET b == ReadBucket
        p == PolicyOf(b)
        h == hist[b]
    IN  (chk[b] # NoChk /\ h.afterCheck /\ h.consumeAt # Nil
            /\ chk[b].now - h.consumeAt >= 60) =>
            chk[b].remaining =
                Min(p.BucketSize,
                    h.consumeLeft + ((chk[b].now - h.consumeAt) * p.RefillRate) \div 60)

\* C6 (as claimed): after a Consume left priorTokens in a bucket whose
\* last-refill time L is stored, every later Check (no Consume in between) at
\* now >= L returns min(capacity, priorTokens + floor((now - L) * refillRate / 60)),
\* whatever Checks were made in between.
C6_RefillIndependentOfChecks ==
    \A b \in Buckets :
        LET p == PolicyOf(b)
            h == hist[b]
        IN  (chk[b] # NoChk /\ h.anchorFrom # Nil /\ chk[b].now >= h.anchorFrom) =>
                chk[b].remaining =
                    Min(p.BucketSize,
                        h.consumeLeft + ((chk[b].now - h.anchorFrom) * p.RefillRate) \div 60)

\* C7 (as claimed): once a Check was rejected, a Check at or after the reset
\* time it returned, with no Consume in between, is allowed.
C7_ExhaustedRecovers ==
    chk[ReadBucket].due => chk[ReadBucket].allowed

\* C8: a Check at the timestamp of the Check before it (nothing else having
\* touched the bucket) returns the same count and leaves the stored count as
\* it was: the owed refill is added by the first of them only.
C8_AtomicRefill ==
    [][\A b \in Buckets :
            (chk[b].now # Nil /\ chk'[b].now = chk[b].now) =>
                /\ chk'[b].remaining = chk[b].remaining
                /\ store'[b].tokens = store[b].tokens
                /\ (chk'[b].repeat > 0 => chk'[b].refill = 0)]_vars

\* C8 witness: a Check repeated at the timestamp of a Check that refilled.
C8_Witness ==
    \E b \in SmallBuckets : chk[b].repeat = 2 /\ chk[b].remaining < PolicyOf(b).BucketSize

\* C9: after any sequence of Consume calls with total cost s on a bucket that
\* held T tokens, with no refill, Reset or expiry in between, the bucket
\* holds max(0, T - s).
C9_NoLostUpdate ==
    \A b \in Buckets :
        hist[b].chainT # Nil =>
            /\ Tokens(b) = Max(0, hist[b].chainT - hist[b].chainSum)
            /\ store[b].tokens # Nil

\* C9 witness: Consume calls of costs 1 and 3 (in either order) on 3 tokens.
C9_Witness ==
    \E b \in SmallBuckets :
        hist[b].chainT = 3 /\ hist[b].chainSum = 4 /\ store[b].tokens = 0

\* C10: CostForStatus follows the cost schedule, case by case.
C10_CostSchedule ==
    costIn # <<>> =>
        LET p == costIn[1]
            st == costIn[2]
            exempt == st >= 500 /\ p.IgnoreOn5xx
            success == 200 <= st /\ st < 300
        IN  /\ exempt => costOut = 0
            /\ (~exempt /\ success) => costOut = p.SuccessCost
            /\ (~exempt /\ st = 404) => costOut = p.NotFoundCost
            /\ (~exempt /\ ~success /\ st # 404) => costOut = p.DefaultCost
            /\ (p.SuccessCost = 1 /\ p.NotFoundCost = 3 /\ p.DefaultCost = 1
                    /\ p.IgnoreOn5xx) =>
                    /\ st \in {200, 201} => costOut = 1
                    /\ st = 404 => costOut = 3
                    /\ st = 500 => costOut = 0
                    /\ st = 400 => costOut = 1

\* C10 witness: a 500 under a policy that does not exempt 5xx is charged the
\* default cost, here 2.
C10_Witness ==
    /\ costIn # <<>>
    /\ costIn[2] = 500 /\ ~costIn[1].IgnoreOn5xx /\ costIn[1].DefaultCost = 2
    /\ costOut = 2

\* C11: a Check never lowers the stored token count; the state it returns has
\* allowed = TRUE exactly when remaining > 0; and a Check at the timestamp of
\* the Check before it, with no Consume in between, returns the same remaining.
C11_CheckDoesNotDeduct ==
    [][\A b \in Buckets :
            /\ chk'[b] # NoChk => Tokens(b)' >= Tokens(b)
            /\ chk'[b] # NoChk => (chk'[b].allowed <=> chk'[b].remaining > 0)
            /\ (chk[b].now # Nil /\ chk'[b].now = chk[b].now) =>
                    chk'[b].remaining = chk[b].remaining]_vars

\* C11 witness: an emptied bucket was checked twice at one timestamp and
\* rejected both times.
C11_Witness ==
    \E b \in SmallBuckets :
        /\ chk[b].repeat >= 1 /\ chk[b].remaining = 0 /\ ~chk[b].allowed
        /\ store[b].tokens = 0

\* C12: a request whose Check was not allowed is answered 429 with
\* X-RateLimit-Remaining 0; nothing of Idempotency or of the handler has run
\* for it, no Consume is issued for it, and the rejecting step leaves the
\* stored token count as it was.
C12_Rejection ==
    [][\A r \in Traced :
            rl'[r].rejected =>
                /\ rl'[r].pc = "done"
                /\ rl'[r].client.status = 429
                /\ rl'[r].remaining = 0
                /\ req'[r] = NoReq
                /\ ~rl'[r].consumed
                /\ (~rl[r].rejected =>
                        store'[PipeBucket].tokens = store[PipeBucket].tokens)]_vars

\* C12 witness: the traced request was rejected on a bucket the other
\* requests had emptied.
C12_Witness ==
    \E r \in Traced :
        /\ rl[r].rejected /\ rl[r].client = TooManyRequests
        /\ store[PipeBucket].tokens = 0

\* C13: a request whose Check returned an error is passed on to the next
\* handler; it is never answered 429, what the client gets is what the next
\* handler wrote, and no Consume is issued for it.
C13_LimiterFailOpen ==
    \A r \in Traced :
        rl[r].checkErr =>
            /\ rl[r].pc \in {"inner", "done", "aborted"}
            /\ ~rl[r].rejected /\ rl[r].client.status # 429
            /\ ~rl[r].consumed
            /\ rl[r].pc = "done" => (req[r].pc = "done" /\ rl[r].client = req[r].resp)

\* C13 witness: after a failed Check the handler ran and its 201 reached the
\* client.
C13_Witness ==
    \E r \in Traced :
        /\ rl[r].checkErr /\ rl[r].pc = "done"
        /\ req[r].ran /\ rl[r].client.status = 201

\* C14: a request whose ClaimKey returned an error got no record and no
\* claim; it ends with the handler having run, the handler's response at the
\* client, and no Save called for it.
C14_IdempotencyFailOpen ==
    \A r \in Traced :
        req[r].err =>
            /\ req[r].record = NoDoc /\ ~req[r].claimed
            /\ ~req[r].saveCalled
            /\ req[r].pc \in {"next", "done"}
            /\ req[r].pc = "done" => req[r].ran
            /\ rl[r].pc = "done" => (req[r].ran /\ rl[r].client = req[r].resp)

\* C14 witness: ClaimKey failed while the key had a record; the handler ran
\* all the same and its 409 reached the client.
C14_Witness ==
    \E r \in Traced :
        /\ req[r].err /\ rl[r].pc = "done" /\ rl[r].client.status = 409
        /\ idem[req[r].key] # NoDoc

\* C15: once the chain has returned for a request whose handler ran, the
\* client holds the handler's status and body, whether Consume and Save
\* succeeded or failed.
C15_BestEffortAccounting ==
    \A r \in Traced :
        (rl[r].pc = "done" /\ req[r].ran) => rl[r].client = req[r].resp

\* C15 witness: both Save and Consume failed for the claimant (its record is
\* still in the processing state) and its 201 reached the client.
C15_Witness ==
    \E r \in Traced :
        /\ rl[r].pc = "done" /\ rl[r].consumeErr
        /\ req[r].claimed /\ req[r].saveCalled /\ idem[req[r].key] = Processing
        /\ rl[r].client.status = 201

\* C16 (as claimed): a Check that met a token value that is no number never
\* ends in a 429.
C16_MalformedFailsOpen ==
    \A r \in Traced : rl[r].malformed => ~rl[r].rejected

\* C17: within one request, Check has returned before ClaimKey starts and is
\* not made after it; ClaimKey has returned before the handler is
\* dispatched; Consume is issued only once the inner chain has returned, and
\* Save is called only once the handler has run.
C17_RequestOrdering ==
    [][\A r \in Traced :
            /\ (req[r].pc = "find" /\ req'[r].pc # "find") =>
                    (rl[r].enabled => (rl[r].checked \/ rl[r].checkErr))
            /\ (~rl[r].checked /\ rl'[r].checked) => req[r].pc = "idle"
            /\ (~req[r].ran /\ req'[r].ran /\ req[r].key # NoKey) =>
                    (req[r].claimed \/ req[r].err)
            /\ (~rl[r].consumed /\ rl'[r].consumed) => req[r].pc = "done"
            /\ (~req[r].saveCalled /\ req'[r].saveCalled) => req[r].ran]_vars

\* C17 witness: a request went through Check, ClaimKey, the handler, Save and
\* Consume while another request held the same key.
C17_Witness ==
    \E r \in Traced :
        /\ rl[r].pc = "done" /\ rl[r].checked /\ rl[r].consumed
        /\ req[r].claimed /\ req[r].ran /\ req[r].saveCalled
        /\ \E q \in PipeReqs \ Traced : req[q].key = req[r].key /\ req[q].pc # "idle"

\* C18 (as claimed): a request whose ClaimKey returned claimed=false with a
\* record still in the processing state has its handler invoked.
C18_InFlightProceeds ==
    \A r \in Reqs :
        (~req[r].claimed /\ req[r].record = Processing
            /\ req[r].pc \in {"done", "panic"}) => req[r].ran

C20_ClaimCompleted ==
    \A r \in Reqs :
        (req[r].claimed /\ req[r].ran /\ req[r].pc = "done") => req[r].saveCalled

\* C21: a request without X-Idempotency-Key (or with an empty one) goes
\* straight to the handler: ClaimKey is not called (nothing claimed, no record
\* read, no store error), Save is not called, and no step of the request
\* changes the idempotency collection.
C21_NoKeyPassThrough ==
    [][\A r \in Reqs :
        (req'[r].key = NoKey /\ req'[r].pc # "idle") =>
            /\ req'[r].pc \in {"next", "done"}
            /\ ~req'[r].claimed /\ req'[r].record = NoDoc /\ ~req'[r].err
            /\ ~req'[r].saveCalled
            /\ (req'[r].pc = "done" => req'[r].ran)
            /\ (req'[r] # req[r] => idem' = idem /\ lastSave' = lastSave)]_vars

\* A request without key has been served by the handler while the collection
\* holds the record of another request.
C21_Witness ==
    \E r \in Reqs : /\ req[r].key = NoKey /\ req[r].pc = "done" /\ req[r].ran
                    /\ idem["k1"] # NoDoc

\* C22: every response of a rate-limited route whose Check succeeded, the
\* admitted one and the 429 alike, carries X-RateLimit-Limit = the decimal
\* text of the policy's bucket capacity, X-RateLimit-Remaining = that of the
\* Remaining that Check returned, X-RateLimit-Reset = that of its Reset, and
\* X-RateLimit-Policy = the policy's name.
C22_RateLimitHeaders ==
    \A r \in Traced :
        (rl[r].pc = "done" /\ rl[r].checked) =>
            /\ rl[r].client # NoResp
            /\ rl[r].headers.Limit = Itoa(PolicyOf(PipeBucket).BucketSize)
            /\ rl[r].headers.Remaining = Itoa(rl[r].state.Remaining)
            /\ rl[r].headers.Reset = Itoa(rl[r].state.Reset)
            /\ rl[r].headers.Policy = PolicyOf(PipeBucket).Name

\* An admitted response, sent after two tokens of the bucket had been spent.
C22_Witness ==
    \E r \in Traced :
        /\ rl[r].pc = "done" /\ rl[r].checked /\ ~rl[r].rejected
        /\ rl[r].client.status = 201
        /\ rl[r].headers = [Limit |-> "5", Remaining |-> "3", Reset |-> "60",
                            Policy |-> "SMALL"]

\* C23: DefaultPolicies returns exactly three policies: ENTRIES_WRITE (rate
\* 1200, size 36000, 404 cost 1), ENTRIES_UPDATE (600, 600, 404 cost 1) and
\* ENTRIES_READ_PARTICIPANT_ANTISCAN (2, 50, 404 cost 3), each with success
\* cost 1, other cost 1 and 5xx exempt.  GetPolicy(name) returns the policy
\* whose Name is name for these three and nil for any other name, whatever an
\* earlier caller did to its result; neither call changes anything else.
C23_PolicyRegistry ==
    [][(pol' # pol /\ pol'.called /\ ~pol'.scribbled) =>
        LET Shape(rate, size, notFound) ==
                [RefillRate |-> rate, BucketSize |-> size, SuccessCost |-> 1,
                 NotFoundCost |-> notFound, DefaultCost |-> 1, IgnoreOn5xx |-> TRUE]
            Strip(p) ==
                [RefillRate |-> p.RefillRate, BucketSize |-> p.BucketSize,
                 SuccessCost |-> p.SuccessCost, NotFoundCost |-> p.NotFoundCost,
                 DefaultCost |-> p.DefaultCost, IgnoreOn5xx |-> p.IgnoreOn5xx]
            all == pol'.all
        IN  /\ DOMAIN all = {"ENTRIES_WRITE", "ENTRIES_UPDATE",
                             "ENTRIES_READ_PARTICIPANT_ANTISCAN"}
            /\ \A n \in DOMAIN all : all[n].Name = n
            /\ Strip(all["ENTRIES_WRITE"]) = Shape(1200, 36000, 1)
            /\ Strip(all["ENTRIES_UPDATE"]) = Shape(600, 600, 1)
            /\ Strip(all["ENTRIES_READ_PARTICIPANT_ANTISCAN"]) = Shape(2, 50, 3)
            /\ IF pol'.name \in DOMAIN all
               THEN pol'.got = all[pol'.name] /\ pol'.got.Name = pol'.name
               ELSE pol'.got = NilPolicy
            /\ UNCHANGED <<bucketVars, idemVars, pipeVars, costIn, costOut, kv>>]_vars

\* GetPolicy has answered nil for a name that differs from a registered one
\* by case only, after an earlier caller had been given the antiscan policy
\* and had charged a 404 with it.
C23_Witness ==
    /\ pol.called /\ ~pol.scribbled
    /\ pol.name = "entries_write" /\ pol.got = NilPolicy
    /\ costOut = 3

\* C24 (as claimed): a request arriving with a key whose record is still in
\* the processing state is answered 409 Conflict or 422 Unprocessable by the
\* idempotency middleware, and its handler is not run.
C24_LockedKeyRefused ==
    \A r \in Reqs :
        (~req[r].claimed /\ req[r].record = Processing
            /\ req[r].pc \in {"done", "panic"}) =>
                /\ req[r].pc = "done"
                /\ req[r].resp.status \in {409, 422}
                /\ ~req[r].ran

\* C25: idempotency is scoped by the key alone.  A request that arrives with
\* the key of a completed request, whoever sends it and whatever its body, is
\* treated as the same request: its handler is not run and it receives the
\* status and body recorded for the first.
C25_ScopedByKeyAlone ==
    \A r1, r2 \in Reqs :
        (/\ r1 # r2
         /\ req[r1].key # NoKey /\ req[r2].key = req[r1].key
         /\ req[r1].claimed /\ req[r1].saveCalled
         /\ req[r2].since = SaveDoc(req[r1].resp.body, req[r1].resp.status)
         /\ req[r2].pc = "done") =>
            /\ ~req[r2].ran /\ ~req[r2].claimed
            /\ req[r2].resp = req[r1].resp

\* A request of another participant with another body was answered with the
\* 201 recorded for the first.
C25_Witness ==
    \E r1, r2 \in Reqs :
        /\ CallerOf(r1) # CallerOf(r2) /\ BodyOf(r1) # BodyOf(r2)
        /\ req[r2].key = req[r1].key /\ req[r1].key # NoKey
        /\ req[r1].claimed /\ req[r1].saveCalled /\ req[r1].resp.status = 201
        /\ req[r2].pc = "done" /\ ~req[r2].ran /\ req[r2].resp = req[r1].resp

\* C26: ClaimKey, a FindByKey followed by a separate upsert, refines the
\* atomic claim.  In every interleaving with other ClaimKey and Save calls on
\* the key, the step at which a ClaimKey learns its result (the FindByKey that
\* finds a record, or else the upsert) returns what the atomic claim would
\* return on the collection as it stands, and changes the collection as the
\* atomic claim would; a FindByKey that finds nothing changes nothing.  The
\* results are therefore those of the atomic claims executed one after the
\* other in the order of these steps.  (The atomic claim inserts the
\* processing record if the key has none, and returns the document held
\* before.)
C26_ClaimKeyRefinesAtomic ==
    [][LET ClaimAtomic(doc) ==
               [claimed |-> doc = NoDoc, record |-> doc,
                after |-> IF doc = NoDoc THEN [Response |-> "", StatusCode |-> 0]
                          ELSE doc]
       IN  \A r \in Reqs :
            /\ (req[r].pc \in {"find", "upsert"} /\ req'[r].pc \in {"replay", "handler"}) =>
                    LET a == ClaimAtomic(idem[RecordKey(r)])
                    IN  /\ req'[r].claimed = a.claimed
                        /\ req'[r].record = a.record
                        /\ idem' = [idem EXCEPT ![RecordKey(r)] = a.after]
            /\ (req[r].pc = "find" /\ req'[r].pc = "upsert") => idem' = idem]_vars

\* A ClaimKey whose FindByKey found nothing was overtaken by a whole claim,
\* handler and Save of another request: its upsert returned the 201 record.
C26_Witness ==
    \E r \in Reqs :
        /\ req[r].raced /\ ~req[r].claimed /\ req[r].record.StatusCode = 201
        /\ req[r].pc = "done"

\* C27 (as claimed): every operation that writes a bucket gives both stored
\* fields the 120 second time to live anew, so the two expire together.
\* Reset does (its two SETs carry the same TTL); stated here for the other
\* two writers: after a Check or a Consume that wrote the bucket, each field
\* the bucket holds expires 120 seconds from now.
C27_FieldsExpireTogether ==
    [][\A b \in Buckets :
        (/\ store'[b] # store[b]
         /\ clock' = clock
         /\ resetPend[b] = Nil /\ resetPend'[b] = Nil) =>
            /\ store'[b].tokens # Nil => store'[b].tokensExp = clock + BucketTTL
            /\ store'[b].last_refill # Nil => store'[b].refillExp = clock + BucketTTL]_vars

\* C28 (as claimed): behind both middlewares, the status the limiter's
\* capture holds for Consume equals the status the idempotency recorder holds
\* for Save, after every sequence of WriteHeader and Write calls of the
\* handler (more than one WriteHeader, or Write without WriteHeader, included).
C28_SameCapturedStatus ==
    wr.capture.statusCode = wr.recorder.statusCode

C30_ZeroCostConsume ==
    [][\A r \in Traced :
        (/\ rl[r].pc = "inner" /\ rl'[r].pc = "done" /\ rl'[r].consumed
         /\ req[r].resp.status >= 500
         /\ PolicyOf(PipeBucket).IgnoreOn5xx) =>
            /\ ~rl'[r].consumeErr
            /\ store' = store]_vars

\* Consume was called for a 500 response on a bucket holding both fields,
\* some time after they were last given their time to live.
C30_Witness ==
    \E r \in Traced :
        /\ rl[r].pc = "done" /\ rl[r].consumed /\ rl[r].client.status = 500
        /\ store[PipeBucket].tokens \notin {Nil, Bad}
        /\ store[PipeBucket].last_refill # Nil
        /\ store[PipeBucket].tokensExp < clock + BucketTTL
        /\ store[PipeBucket].refillExp < clock + BucketTTL

\* C31: Reset restores full capacity.  When Reset's second SET completes, the
\* last-refill timestamp is the reset time, and if no Check, Consume or expiry
\* came between its two SETs the token count is the policy's BucketSize; a
\* Check on a bucket so reset returns remaining = BucketSize.  Whatever runs
\* between the two SETs, the token count stays within 0..BucketSize.
C31_ResetRestoresCapacity ==
    [][\A b \in SmallBuckets :
        LET size == PolicyOf(b).BucketSize
            undisturbed == /\ chk[b] = NoChk /\ hist[b] = NoHist
                           /\ store[b].tokensExp = clock + BucketTTL
        IN  /\ (resetPend[b] # Nil /\ resetPend'[b] = Nil) =>
                    /\ store'[b].last_refill = resetPend[b]
                    /\ undisturbed => store'[b].tokens = size
            /\ (/\ resetPend[b] = Nil /\ store[b].tokens = size
                /\ store[b].last_refill # Nil
                /\ chk'[b] # chk[b] /\ chk'[b] # NoChk) =>
                    chk'[b].remaining = size
            /\ store'[b].tokens \in {Nil} \cup (0..size)]_vars

\* Some time after start a Reset has completed and the Check that followed
\* returned the full capacity.
C31_Witness ==
    \E b \in SmallBuckets :
        /\ resetPend[b] = Nil /\ store[b].last_refill # Nil
        /\ store[b].tokens = PolicyOf(b).BucketSize
        /\ chk[b] # NoChk /\ chk[b].remaining = PolicyOf(b).BucketSize
        /\ clock > 0

\* C32: in the legacy IdempotencyMiddleware a caller whose upsert finds a
\* record still in the processing state is returned claimed=true and goes on
\* to the handler, leaving the record as it is; and a Save stores the saver's
\* response whatever the record held, so that of two such requests the later
\* Save overwrites the earlier.
C32_LegacyDoubleClaim ==
    [][\A r \in Reqs :
        /\ (/\ req[r].pc = "upsert" /\ req'[r].pc \notin {"upsert", "next"}
            /\ idem[req[r].key] = Processing) =>
                /\ req'[r].claimed /\ req'[r].pc = "handler"
                /\ idem' = idem
        /\ (~req[r].saveCalled /\ req'[r].saveCalled /\ idem' # idem) =>
                idem'[req[r].key] = SaveDoc(req[r].resp.body, req[r].resp.status)]_vars

\* Two requests with one key both claimed it, both ran the handler and both
\* saved; the 409 saved last stands in place of the 201 saved first.
C32_Witness ==
    \E r1, r2 \in Reqs :
        /\ r1 # r2 /\ req[r1].key = "k1" /\ req[r2].key = "k1"
        /\ req[r1].claimed /\ req[r1].ran /\ req[r1].saveCalled /\ ~req[r1].lapsed
        /\ req[r2].claimed /\ req[r2].ran /\ req[r2].saveCalled /\ ~req[r2].lapsed
        /\ req[r1].resp.status = 201 /\ req[r2].resp.status = 409
        /\ req[r2].raced
        /\ idem["k1"] = SaveDoc(req[r2].resp.body, 409)

\* The requests of the present lifetime of k's record whose middleware has
\* finished, and whose ClaimKey did not claim the key.
Others(k) ==
    {r \in Returned(k) : ~req[r].claimed /\ req[r].pc \in {"done", "panic"}}

RECURSIVE TotalCost(_)
TotalCost(S) ==
    IF S = {} THEN 0
    ELSE LET r == CHOOSE x \in S : TRUE
         IN  CostForStatus(PolicyOf(PipeBucket), req[r].resp.status) + TotalCost(S \ {r})

\* C34: admission is decided on the count at check time only.  A request
\* whose Check returned T >= 1 is admitted, and as long as no request of a
\* batch has been charged, every Check of the batch returns the same count:
\* a Check reserves nothing.  When all requests of a batch got
\* the same T >= 1 from their Checks (none of them had been charged before
\* another was checked) and all have been charged, every one of them has run
\* its handler, even if their total cost exceeds T, and the stored count is
\* max(0, T - total cost).
C34_AdmissionAtCheckTime ==
    /\ \A r \in PipeReqs :
        (rl[r].checked /\ rl[r].state.Remaining >= 1) =>
            ~rl[r].rejected /\ rl[r].pc \in {"inner", "done"}
    /\ (\A r \in PipeReqs : ~rl[r].consumed) =>
            \A r1, r2 \in PipeReqs :
                (rl[r1].checked /\ rl[r2].checked) =>
                    rl[r1].state.Remaining = rl[r2].state.Remaining
    /\ \A T \in 1..SmallBucket :
        (\A r \in PipeReqs : /\ rl[r].pc = "done" /\ rl[r].checked /\ rl[r].consumed
                             /\ rl[r].state.Remaining = T) =>
            /\ \A r \in PipeReqs : req[r].ran
            /\ Tokens(PipeBucket) = Max(0, T - TotalCost(PipeReqs))

\* Every request of the batch was checked on a count of one, every one ran
\* its handler to a 201, and the count is zero.
C34_Witness ==
    /\ \A r \in PipeReqs : /\ rl[r].pc = "done" /\ rl[r].checked /\ rl[r].consumed
                           /\ rl[r].state.Remaining = 1
                           /\ req[r].ran /\ req[r].resp.status = 201
    /\ TotalCost(PipeReqs) > 1
    /\ store[PipeBucket].tokens = 0

\* C35: an absent bucket counts as full.  Every Check, admitted or rejected,
\* and every Consume of a cost above zero leaves the token count, if one is
\* stored, with 120 seconds to live.  Once the count has expired, a Check
\* returns remaining = capacity and a Consume stores capacity - cost,
\* whatever the count was before and whatever the refill rate.
C35_AbsentCountsAsFull ==
    [][\A b \in SmallBuckets :
        LET size == PolicyOf(b).BucketSize
            isCheck == /\ chk'[b] # NoChk
                       /\ chk'[b] # chk[b] \/ store'[b] # store[b]
            isConsume == /\ clock' = clock /\ resetPend' = resetPend
                         /\ chk'[b] = NoChk /\ hist'[b].chainT # Nil
                         /\ store'[b] # store[b]
        IN  /\ isCheck =>
                /\ store'[b].tokens # Nil => store'[b].tokensExp = clock + BucketTTL
                /\ store[b].tokens = Nil => chk'[b].remaining = size
            /\ isConsume =>
                /\ store'[b].tokensExp = clock + BucketTTL
                /\ store[b].tokens = Nil =>
                        /\ hist'[b].chainSum \in 1..3
                        /\ store'[b].tokens = size - hist'[b].chainSum]_vars

\* After a count had been stored and had expired a 404 has been charged: the
\* count stored is the capacity less 3, with 120 seconds to live.
C35_Witness ==
    \E b \in SmallBuckets :
        /\ clock >= BucketTTL
        /\ store[b].tokens = PolicyOf(b).BucketSize - 3
        /\ store[b].tokensExp = clock + BucketTTL
        /\ store[b].last_refill = Nil
        /\ hist[b].gone /\ hist[b].chainSum = 3

\* C36: replays are charged.  On POST /entries a request answered by
\* replaying a stored record has passed Check before, and once answered its
\* Consume is called with the replayed status: unless Consume fails, the cost
\* of that status (none for a 5xx the policy ignores) is taken from the count
\* of the caller's bucket, an absent count being the bucket size.
C36_ReplaysCharged ==
    [][\A r \in Traced :
        LET p == PolicyOf(PipeBucket)
            replayed == /\ req[r].pc = "done" /\ ~req[r].ran
                        /\ req[r].record # NoDoc
                        /\ req[r].resp.status = req[r].record.StatusCode
        IN  (/\ rl[r].pc = "inner" /\ rl'[r].pc = "done"
             /\ rl[r].enabled /\ ~rl[r].checkErr
             /\ replayed) =>
                /\ rl[r].checked
                /\ rl'[r].consumed
                /\ ~rl'[r].consumeErr =>
                        (IF store'[PipeBucket].tokens = Nil
                         THEN p.BucketSize ELSE store'[PipeBucket].tokens) =
                            Max(0, Tokens(PipeBucket)
                                   - CostForStatus(p, req[r].record.StatusCode))]_vars

\* The traced request was checked on a full bucket, was answered with the
\* 201 another request had recorded, and was charged one token for it.
C36_Witness ==
    \E r \in Traced :
        /\ rl[r].pc = "done" /\ rl[r].checked /\ rl[r].consumed /\ ~rl[r].consumeErr
        /\ ~req[r].ran /\ req[r].record.StatusCode = 201 /\ rl[r].client.status = 201
        /\ rl[r].state.Remaining = SmallBucket
        /\ store[PipeBucket].tokens = SmallBucket - 1

\* C37: error responses are cached too.  Save is called for every request
\* that claimed its key and whose captured body is valid JSON, whatever the
\* status, and stores that status and body; a request arriving after a 4xx or
\* 5xx response was saved for its key is answered with that status and body,
\* and its handler is not invoked.
C37_ErrorsCached ==
    [][\A r \in Reqs :
        /\ (/\ req'[r].claimed /\ req'[r].ran /\ req'[r].pc = "done"
            /\ JsonValid(req'[r].resp.body)) => req'[r].saveCalled
        /\ (~req[r].saveCalled /\ req'[r].saveCalled /\ idem' # idem) =>
                idem'[req[r].key] = [Response |-> req[r].resp.body,
                                     StatusCode |-> req[r].resp.status]
        /\ (/\ req'[r].since # NoDoc /\ req'[r].since.StatusCode >= 400
            /\ req'[r].pc = "done") =>
                /\ ~req'[r].ran
                /\ req'[r].resp = [status |-> req'[r].since.StatusCode,
                                   body |-> req'[r].since.Response]]_vars

\* The 500 of the first request was saved, and two later requests with the
\* key were answered with it.
C37_Witness ==
    \E r1, r2, r3 \in Reqs :
        /\ r2 # r3
        /\ req[r1].claimed /\ req[r1].saveCalled /\ req[r1].resp.status = 500
        /\ idem["k1"].StatusCode = 500
        /\ \A r \in {r2, r3} : /\ req[r].pc = "done" /\ ~req[r].ran
                               /\ req[r].resp = req[r1].resp


\* C38: bucket isolation.  A Check, Consume or Reset step on one (policy,
\* identifier) pair leaves the two keys of every other pair as they were,
\* values and expiry instants, and with them the other pair's half-run Reset
\* and the BucketState a Check of the other pair returns.
C38_BucketIsolation ==
    [][\A b \in KeyBuckets :
          (kv'.op # NoBucket /\ kv'.op # b)
          => /\ GetKeys(kv'.redis, b) = GetKeys(kv.redis, b)
             /\ kv'.pend[b] = kv.pend[b]
             /\ BucketState(RefillScript(PolicyOf(b), GetKeys(kv'.redis, b),
                                         clock', clock').result, clock')
                = BucketState(RefillScript(PolicyOf(b), GetKeys(kv.redis, b),
                                           clock', clock').result, clock')]_vars

\* Three buckets hold three different counts in one Redis; the last operation
\* was on participant p1 of SMALL, after the other participant of the same
\* policy had been reset and charged and p1 under the antiscan policy charged.
C38_Witness ==
    /\ kv.op = <<"SMALL", "p1">>
    /\ GetKeys(kv.redis, <<"SMALL", "p1">>).tokens = SmallBucket - 3
    /\ GetKeys(kv.redis, <<"SMALL", "p1:tokens">>).tokens = SmallBucket - 1
    /\ GetKeys(kv.redis, ReadBucket).tokens = 47
    /\ GetKeys(kv.redis, <<"SMALL", "p1:tokens">>).last_refill # Nil


\* C39: a Check that owes no whole token writes neither key's value.  With
\* owed = floor((now - lastRefill) / 60 * refillRate), lastRefill read as now
\* when absent: if owed <= 0 (now may lie before lastRefill under clock skew)
\* the token count and lastRefill are what they were, so the time elapsed
\* since lastRefill still counts at the next Check; if owed > 0 the count
\* grows by owed up to the bucket size and lastRefill becomes now, whatever
\* part of a token the elapsed time went beyond owed.
C39_NoRefillNoWrite ==
    [][\A b \in SmallBuckets :
        LET p == PolicyOf(b)
            now == chk'[b].now
            lastRefill == IF store[b].last_refill = Nil THEN now ELSE store[b].last_refill
            owed == ((now - lastRefill) * p.RefillRate) \div 60
            held == IF store[b].tokens = Nil THEN p.BucketSize ELSE store[b].tokens
            isCheck == /\ chk'[b] # NoChk
                       /\ chk'[b] # chk[b] \/ store'[b] # store[b]
        IN  isCheck =>
                IF owed <= 0
                THEN /\ store'[b].tokens = store[b].tokens
                     /\ store'[b].last_refill = store[b].last_refill
                     /\ chk'[b].remaining = held
                ELSE /\ store'[b].tokens = Min(p.BucketSize, held + owed)
                     /\ store'[b].last_refill = now]_vars

\* A Check has found less than one token owed although time has passed since
\* lastRefill, on a bucket that is not full: lastRefill is still the earlier
\* instant.
C39_Witness ==
    \E b \in SmallBuckets :
        /\ chk[b] # NoChk
        /\ chk[b].refill = 0
        /\ store[b].last_refill # Nil
        /\ store[b].last_refill < chk[b].now
        /\ store[b].tokens # Nil
        /\ store[b].tokens < PolicyOf(b).BucketSize

====
